---- MODULE Spec2Model ----
(***************************************************************************)
(* Model of the FastAPI WebSocket hub of Fastapi_websocket_led/main.py.    *)
(*                                                                         *)
(* One handler (websocket_endpoint) runs per connection, plus the          *)
(* keep_alive_task.  They are asyncio coroutines: the code between two     *)
(* awaits runs without interruption, and every await (receive_json,        *)
(* send_json, close) is a point where another coroutine may run.  Each     *)
(* action below is therefore one run of a coroutine from the await it was  *)
(* suspended in to the next await it reaches; a send is performed when     *)
(* the await is reached and its result is read when the coroutine resumes. *)
(***************************************************************************)
EXTENDS Integers, Sequences, FiniteSets, TLC

\* ------------------------------------------------------------------ bounds
MaxInputs == 2         \* events of the environment in one run: loop messages received,
                       \* connections broken, keep-alive timers fired

Conns == 1..4          \* connection handles (WebSocket objects), in the order accepted
NoConn == 0            \* Python None where a handle is expected

\* ------------------------------------------------------------ JSON values
\* A JSON value is <<tag, v>>.  isinstance(x, str) is tag = "str";
\* isinstance(x, int) is tag \in {"int", "bool"} (bool is a subclass of int);
\* a missing key and a JSON null both read as None through dict.get.
JStr(s) == <<"str", s>>
JInt(n) == <<"int", n>>
JBool(n) == <<"bool", n>>     \* True is 1, False is 0: True == 1 and hash(True) == hash(1)
None == <<"none", 0>>

IsStr(v) == v[1] = "str"
IsInt(v) == v[1] \in {"int", "bool"}
Truthy(v) == CASE v[1] = "str" -> v[2] # ""
               [] v[1] \in {"int", "bool"} -> v[2] # 0
               [] OTHER -> FALSE

AgentIds == {"esp32_01", "esp32_02"}
\* Python's order of the agent ids as strings
IdRank == [i \in AgentIds |-> IF i = "esp32_01" THEN 1 ELSE 2]

\* ---------------------------------------------------------------- messages
\* Every message is a record of the same shape; a field a message does not
\* carry is None (what dict.get returns for it).
M(t) == [type |-> t, role |-> "", id |-> None, from |-> None, device |-> None,
         to |-> None, state |-> None, action |-> None, items |-> <<>>, message |-> ""]
NoMsg == M("none")

RegisteredAgent(id) == [M("registered") EXCEPT !.id = id]
RegisteredFrontend == [M("registered") EXCEPT !.role = "frontend"]
Esp32List(items) == [M("esp32_list") EXCEPT !.items = items]
Esp32Online(id) == [M("esp32_online") EXCEPT !.id = id]
Esp32Offline(id) == [M("esp32_offline") EXCEPT !.id = id]
PingEcho == M("ping")
Pong == M("pong")
Ping == M("ping")
Error(text) == [M("error") EXCEPT !.message = text]
Warning(text) == [M("warning") EXCEPT !.message = text]
GetStateFwd(to) == [M("get_state") EXCEPT !.to = to]

\* ---- what clients send
RegisterMsgs(part) ==
    CASE part \in AgentIds -> {[M("register") EXCEPT !.role = "esp32", !.id = JStr(part)]}
      [] part = "frontend" -> {[M("register") EXCEPT !.role = "frontend"]}
      [] OTHER -> {[M("register") EXCEPT !.role = "esp32", !.id = i] :
                      i \in {JStr(""), None, JInt(5)}}
                  \cup {[M("register") EXCEPT !.role = "other"],
                        [M("ping") EXCEPT !.role = "frontend"]}

AllRegisterMsgs ==
    RegisterMsgs("esp32_01") \cup RegisterMsgs("esp32_02") \cup RegisterMsgs("frontend")
    \cup RegisterMsgs("invalid")

GoodStateMsgs ==
    {[M("state") EXCEPT !.from = JStr(a), !.device = JStr("relay"), !.id = JInt(i), !.state = JStr(s)] :
        a \in AgentIds, i \in {0, 1}, s \in {"on", "off"}}
State0 == [M("state") EXCEPT !.from = JStr("esp32_01"), !.device = JStr("relay"),
                             !.id = JInt(0), !.state = JStr("on")]
BadStateMsgs ==
    {[State0 EXCEPT !.from = None], [State0 EXCEPT !.from = JInt(5)],
     [State0 EXCEPT !.device = None], [State0 EXCEPT !.device = JInt(5)],
     [State0 EXCEPT !.id = None], [State0 EXCEPT !.id = JStr("0")],
     [State0 EXCEPT !.id = JBool(0)], [State0 EXCEPT !.id = JBool(1)]}
ToValues == {JStr(a) : a \in AgentIds} \cup {JStr(""), None}
CommandMsgs ==
    {[M("command") EXCEPT !.to = t, !.device = JStr("relay"), !.id = JInt(0), !.action = JStr("on")] :
        t \in ToValues}
GetStateMsgs == {[M("get_state") EXCEPT !.to = t] : t \in ToValues}
LoopMsgs == GoodStateMsgs \cup BadStateMsgs \cup CommandMsgs \cup GetStateMsgs
            \cup {Ping, M("other")}

\* ------------------------------------------------------------------- dicts
\* esp32_connections is a Python dict: a sequence of <<key, value>> pairs in
\* insertion order, written only through DictSet and DictPop.
DictHas(d, k) == \E i \in DOMAIN d : d[i][1] = k
DictGet(d, k) ==
    IF DictHas(d, k) THEN d[CHOOSE i \in DOMAIN d : d[i][1] = k][2] ELSE NoConn
DictSet(d, k, v) ==
    IF DictHas(d, k)
    THEN [i \in DOMAIN d |-> IF d[i][1] = k THEN <<k, v>> ELSE d[i]]
    ELSE Append(d, <<k, v>>)
DictPop(d, k) == SelectSeq(d, LAMBDA e : e[1] # k)
DictKeys(d) == [i \in DOMAIN d |-> d[i][1]]

\* esp32_connections.get(x) for any JSON value x
ConnGet(d, x) == IF IsStr(x) THEN DictGet(d, x[2]) ELSE NoConn

\* state_cache: a dict keyed by (esp32_id, device, id), a function on the keys
\* present.  The key holds the values themselves, so True and 1 are one key.
PyKey(esp32_id, device, dev_id) == <<esp32_id[2], device[2], dev_id[2]>>

\* cache_state: the payload is stored under (from, device, id) when the three
\* isinstance tests pass, and nothing happens otherwise.
cache_state(cache, payload) ==
    LET esp32_id == payload.from
        device == payload.device
        dev_id == payload.id
    IN IF IsStr(esp32_id) /\ IsStr(device) /\ IsInt(dev_id)
       THEN [k \in DOMAIN cache \cup {PyKey(esp32_id, device, dev_id)} |->
                IF k = PyKey(esp32_id, device, dev_id) THEN payload ELSE cache[k]]
       ELSE cache

get_cached_state_other_relay(cache, esp32_id) ==
    LET key == <<esp32_id, "relay", 1>>
    IN IF key \in DOMAIN cache THEN cache[key] ELSE NoMsg

\* get_cached_state_for_esp32: state_cache.get((esp32_id, "relay", 0))
get_cached_state_for_esp32(cache, esp32_id) ==
    LET key == <<esp32_id, "relay", 0>>
    IN IF key \in DOMAIN cache THEN cache[key] ELSE NoMsg

\* sorted(list(esp32_connections.keys())): insertion sort of the key list
unsorted(s) == s

RECURSIVE Insert(_, _)
Insert(x, s) ==
    IF s = <<>> THEN <<x>>
    ELSE IF IdRank[x] <= IdRank[Head(s)] THEN <<x>> \o s
         ELSE <<Head(s)>> \o Insert(x, Tail(s))
RECURSIVE sorted(_)
sorted(s) == IF s = <<>> THEN <<>> ELSE Insert(Head(s), sorted(Tail(s)))

\* ------------------------------------------------------------------- state
VARIABLES
    esp32_connections,  \* dict agent id -> handle
    frontends,          \* set of handles
    state_cache,        \* dict (esp32_id, device, id) -> last state payload
    h,                  \* per connection: where its handler is suspended, and its locals
    ka,                 \* keep_alive_task: where it is suspended, and its locals
    open,               \* transport: TRUE until the connection breaks or is closed
    inputs,             \* events of the environment so far
    sc,                 \* the scenario of the run: who connects and what may be sent
    lastReg,            \* history: per agent id, the handle that registered it last
    options,            \* per connection: the ids its client lists (Front_websocket_led)
    ev                  \* the step just taken: who ran, from where, what it received and sent

vars == <<esp32_connections, frontends, state_cache, h, ka, open, inputs, sc, lastReg,
          options, ev>>

\* A handler's locals.  pc names the await the handler is suspended in:
\*   new      the connection has not sent its first message yet (lines 210, 220)
\*   reject   send_json of the error to a bad register  (lines 223, 230, 241)
\*   closing  ws.close()                                (lines 224, 231, 242)
\*   reg      safe_send_json(registered) to the agent   (line 259)
\*   freg     safe_send_json(registered) to a frontend  (line 277)
\*   bcast    a safe_send_json inside broadcast_to_frontends (line 176)
\*   fwd      safe_send_json(target_ws, data) of a command    (line 336)
\*   cached   safe_send_json(ws, cached) of a get_state       (line 363)
\*   loop     receive_json of the main loop (line 286), or a safe_send_json
\*            after which the handler does nothing but reach that receive_json
\*            (lines 280, 302, 326, 332, 342, 356, 369, 372)
\*   done     the handler has returned
Idle == [pc |-> "new", role |-> "none", esp32_id |-> None, to_id |-> None,
         k |-> "", payload |-> NoMsg, snap |-> {}, todo |-> {}, dead |-> {},
         got |-> {}, cur |-> NoConn, ok |-> TRUE]
\* keep_alive_task's locals: snap is list(frontends) of the cycle, and down
\* (history) the frontends of snap whose connection was broken when it began
KaIdle == [pc |-> "sleep", snap |-> {}, down |-> {}, todo |-> {}, dead |-> {},
           cur |-> NoConn, ok |-> TRUE]

NoBcast == [snap |-> {}, got |-> {}, dead |-> {}]
Ev(who, act, recv, to, msg, ok, bc) ==
    [who |-> who, act |-> act, recv |-> recv, to |-> to, msg |-> msg, ok |-> ok, bcast |-> bc]

\* ev after a step of the environment: nothing was received or sent by the hub
Quiet == Ev(NoConn, "env", NoMsg, NoConn, NoMsg, TRUE, NoBcast)

\* ---- scenarios: the k-th connection accepted sends the k-th register message
\* of the cast ("invalid": any first message the hub rejects), the loops
\* receive messages of the pool, the environment takes budget steps, and
\* observe tells whether the frontends' clients are followed
CmdTo(a) == [M("command") EXCEPT !.to = JStr(a), !.device = JStr("relay"), !.id = JInt(0),
                                 !.action = JStr("on")]
Race == [cast |-> <<"esp32_01", "frontend", "frontend", "esp32_01">>,
         pool |-> {CmdTo("esp32_01"), CmdTo("esp32_02"), Ping},
         budget |-> MaxInputs, observe |-> FALSE]
Cache == [cast |-> <<"esp32_01", "frontend">>,
          pool |-> GoodStateMsgs \cup BadStateMsgs \cup
                   {GetStateFwd(JStr("esp32_01")), GetStateFwd(JStr("esp32_02"))},
          budget |-> MaxInputs, observe |-> FALSE]
Join == [cast |-> <<"esp32_02", "frontend", "esp32_01", "invalid">>,
         pool |-> {Ping, M("other")},
         budget |-> MaxInputs, observe |-> FALSE]
Resync == [cast |-> <<"esp32_01", "frontend", "frontend", "esp32_01">>,
           pool |-> {State0, Ping},
           budget |-> MaxInputs - 1, observe |-> FALSE]
Stream == [cast |-> <<"esp32_01", "frontend", "frontend">>,
           pool |-> {State0, [State0 EXCEPT !.id = JInt(1)]},
           budget |-> MaxInputs, observe |-> FALSE]
View == [cast |-> <<"esp32_01", "frontend", "esp32_02">>,
         pool |-> {CmdTo("esp32_01"), Ping},
         budget |-> MaxInputs, observe |-> TRUE]

InitOf(scenario) ==
    /\ esp32_connections = <<>>
    /\ frontends = {}
    /\ state_cache = <<>>
    /\ h = [c \in Conns |-> Idle]
    /\ ka = KaIdle
    /\ open = [c \in Conns |-> TRUE]
    /\ inputs = 0
    /\ sc = scenario
    /\ lastReg = [a \in AgentIds |-> NoConn]
    /\ options = [c \in Conns |-> <<>>]
    /\ ev = Quiet

\* ------------------------------------------------- pieces of the handlers
\* safe_send_json(ws, payload): True iff the transport still takes the message
safe_send_json(ws) == open[ws]

\* update_status of the Flet client, lines 214-246 of Front_websocket_led:
\* the keys of esp32_dropdown.options after the message data
update_status(opts, data) ==
    CASE data.type = "esp32_list" -> data.items
      [] data.type = "esp32_online" ->
           IF \E i \in DOMAIN opts : opts[i] = data.id[2] THEN opts
           ELSE sorted(Append(opts, data.id[2]))
      [] data.type = "esp32_offline" ->
           sorted(SelectSeq(opts, LAMBDA x : x # data.id[2]))
      [] OTHER -> opts

\* a message the hub has sent reaches the client of a frontend connection;
\* the clients are followed in the scenarios that observe them
Deliver(opts, e) ==
    IF sc.observe /\ e.to # NoConn /\ e.ok /\ sc.cast[e.to] = "frontend"
    THEN [opts EXCEPT ![e.to] = update_status(@, e.msg)]
    ELSE opts

\* One run of connection c's handler: its locals become hc, the shared
\* structures reg, fr and cache, and e records the run.  A handler that has
\* returned has its connection closed by the server.
Upd(c, hc, reg, fr, cache, e) ==
    /\ h' = [h EXCEPT ![c] = hc]
    /\ esp32_connections' = reg
    /\ frontends' = fr
    /\ state_cache' = cache
    /\ open' = IF hc.pc = "done" THEN [open EXCEPT ![c] = FALSE] ELSE open
    /\ options' = Deliver(options, e)
    /\ ev' = e

\* the handler reaches receive_json of the loop ("loop") or returns ("done")
\* without another await
Finish(c, hc, reg, fr, cache, act, recv, bc, next) ==
    Upd(c, IF next = "done" THEN [Idle EXCEPT !.pc = "done"]
           ELSE [Idle EXCEPT !.pc = next, !.role = hc.role, !.esp32_id = hc.esp32_id],
        reg, fr, cache, Ev(c, act, recv, NoConn, NoMsg, TRUE, bc))

\* the handler reaches `await safe_send_json(to, msg)`, to continue at next
Send(c, hc, reg, fr, cache, act, recv, bc, to, msg, next) ==
    Upd(c, [Idle EXCEPT !.pc = next, !.role = hc.role, !.esp32_id = hc.esp32_id,
                        !.to_id = hc.to_id, !.cur = to, !.ok = safe_send_json(to)],
        reg, fr, cache, Ev(c, act, recv, to, msg, safe_send_json(to), bc))

DeadAlways(dead, ws, ok) == dead \cup {ws}

\* broadcast_to_frontends, lines 174-178, and keep_alive_task, lines 154-158:
\* the dead list after a send
Dead(dead, ws, ok) == IF ~ok THEN dead \cup {ws} ELSE dead

RestUntilFailure(todo, ws, ok) == IF ok THEN todo \ {ws} ELSE {}

\* broadcast_to_frontends, line 175: what is left of list(frontends) to send to
\* after the send to ws returned ok
Rest(todo, ws, ok) == todo \ {ws}

\* broadcast_to_frontends(payload) starts, with k what follows it: the first
\* send of the loop over list(frontends)
BcastFirst(c, hc, reg, fr, cache, act, recv, bc, payload, k) ==
    \E ws \in fr :
        Upd(c, [Idle EXCEPT !.pc = "bcast", !.role = hc.role, !.esp32_id = hc.esp32_id,
                            !.k = k, !.payload = payload, !.snap = fr, !.todo = fr,
                            !.cur = ws, !.ok = safe_send_json(ws)],
            reg, fr, cache, Ev(c, act, recv, ws, payload, safe_send_json(ws), bc))

\* broadcast_to_frontends(payload) followed by the loop's receive_json or by
\* the handler's return (next): with no frontend nothing is awaited
Bcast(c, hc, reg, fr, cache, act, recv, bc, payload, next) ==
    IF fr = {} THEN Finish(c, hc, reg, fr, cache, act, recv, bc, next)
    ELSE BcastFirst(c, hc, reg, fr, cache, act, recv, bc, payload, next)

AfterOnlineNoCache(c, hc, reg, fr, cache, act, recv, bc) ==
    Finish(c, hc, reg, fr, cache, act, recv, bc, "loop")

\* lines 264-267 and on: after esp32_online, the cached state is broadcast
AfterOnline(c, hc, reg, fr, cache, act, recv, bc) ==
    LET cached == get_cached_state_for_esp32(cache, hc.esp32_id[2])
    IN IF cached # NoMsg
       THEN Bcast(c, hc, reg, fr, cache, act, recv, bc, cached, "loop")
       ELSE Finish(c, hc, reg, fr, cache, act, recv, bc, "loop")

OwnsEntryAlways(reg, esp32_id, ws) == TRUE
OwnsEntryNever(reg, esp32_id, ws) == FALSE

\* lines 395-397: the cleanup removes the entry only when it is this connection's
OwnsEntry(reg, esp32_id, ws) == ConnGet(reg, esp32_id) = ws

DiscardNothing(fr, ws) == fr

\* line 392: frontends.discard(ws)
Discard(fr, ws) == fr \ {ws}

\* the finally block, lines 387-400
Finally(c, hc, act) ==
    LET fr == IF hc.role = "frontend" THEN Discard(frontends, c) ELSE frontends
    IN IF hc.role = "esp32" /\ Truthy(hc.esp32_id)
          /\ OwnsEntry(esp32_connections, hc.esp32_id, c)
       THEN Bcast(c, hc, DictPop(esp32_connections, hc.esp32_id[2]), fr, state_cache,
                  act, NoMsg, NoBcast, Esp32Offline(hc.esp32_id), "done")
       ELSE Finish(c, hc, esp32_connections, fr, state_cache, act, NoMsg, NoBcast, "done")

\* ---------------------------------------------------------------- actions
\* the client goes away or the network breaks: sends to c fail from now on
Break(c) ==
    /\ h[c].pc \notin {"new", "done"}
    /\ open[c]
    /\ inputs < sc.budget
    /\ inputs' = inputs + 1
    /\ open' = [open EXCEPT ![c] = FALSE]
    /\ ev' = Quiet
    /\ UNCHANGED <<esp32_connections, frontends, state_cache, h, ka, sc, lastReg, options>>

RegisterAgentKeepFirst(reg, esp32_id, ws) ==
    IF DictHas(reg, esp32_id) THEN reg ELSE Append(reg, <<esp32_id, ws>>)

\* line 247: esp32_connections[esp32_id] = ws
RegisterAgent(reg, esp32_id, ws) == DictSet(reg, esp32_id, ws)

ValidAgentIdAnyStr(esp32_id) == IsStr(esp32_id)

\* line 240: isinstance(esp32_id, str) and esp32_id
ValidAgentId(esp32_id) == IsStr(esp32_id) /\ Truthy(esp32_id)

\* lines 210-280: a client connects and sends its first message
RecvInit(c, init_msg) ==
    /\ h[c].pc = "new"
    /\ c \in DOMAIN sc.cast
    /\ init_msg \in RegisterMsgs(sc.cast[c])
    /\ IF c = 1 THEN TRUE ELSE h[c - 1].pc # "new"   \* handles are given out in order
    /\ UNCHANGED <<ka, inputs, sc>>
    /\ IF init_msg.type # "register"
       THEN /\ Send(c, h[c], esp32_connections, frontends, state_cache, "register",
                    init_msg, NoBcast, c, Error("expected register"), "reject")
            /\ UNCHANGED lastReg
       ELSE IF init_msg.role \notin {"esp32", "frontend"}
       THEN /\ Send(c, [h[c] EXCEPT !.role = "other"], esp32_connections, frontends,
                    state_cache, "register", init_msg, NoBcast, c,
                    Error("invalid role"), "reject")
            /\ UNCHANGED lastReg
       ELSE IF init_msg.role = "esp32"
       THEN LET esp32_id == init_msg.id
                hc == [h[c] EXCEPT !.role = "esp32", !.esp32_id = esp32_id]
            IN IF ~ValidAgentId(esp32_id)
               THEN /\ Send(c, hc, esp32_connections, frontends, state_cache, "register",
                            init_msg, NoBcast, c, Error("invalid id"), "reject")
                    /\ UNCHANGED lastReg
               ELSE /\ Send(c, hc, RegisterAgent(esp32_connections, esp32_id[2], c),
                            frontends, state_cache, "register", init_msg, NoBcast, c,
                            RegisteredAgent(esp32_id), "reg")
                    /\ lastReg' = [lastReg EXCEPT ![esp32_id[2]] = c]
       ELSE /\ Send(c, [h[c] EXCEPT !.role = "frontend"], esp32_connections,
                    frontends \cup {c}, state_cache, "register", init_msg, NoBcast, c,
                    RegisteredFrontend, "freg")
            /\ UNCHANGED lastReg

TargetEverRegistered(reg, to_id) ==
    IF IsStr(to_id) /\ to_id[2] \in AgentIds THEN lastReg[to_id[2]] ELSE NoConn

\* line 330 and line 367: target_ws = esp32_connections.get(to_id)
Target(reg, to_id) == ConnGet(reg, to_id)

ForwardFailedAlways(ok) == TRUE

\* line 339: if not ok
ForwardFailed(ok) == ~ok

\* line 341: esp32_connections.pop(to_id, None)
Evict(reg, to_id) == DictPop(reg, to_id[2])

\* lines 366-374: the second half of get_state
GetStateForward(c, hc, act, recv) ==
    LET target_ws == Target(esp32_connections, hc.to_id)
    IN IF target_ws # NoConn
       THEN Send(c, hc, esp32_connections, frontends, state_cache, act, recv, NoBcast,
                 target_ws, GetStateFwd(hc.to_id), "loop")
       ELSE Send(c, hc, esp32_connections, frontends, state_cache, act, recv, NoBcast,
                 c, Warning("not connected"), "loop")

AtReceiveOrSending(hc) == hc.pc \in {"loop", "bcast"}

\* lines 285-286: the handler takes the next message only when it is back
\* at receive_json
AtReceive(hc) == hc.pc = "loop"

\* lines 285-379: one message of the main loop
Recv(c, data) ==
    /\ AtReceive(h[c])
    /\ open[c]
    /\ data \in sc.pool
    /\ inputs < sc.budget
    /\ inputs' = inputs + 1
    /\ UNCHANGED <<ka, sc, lastReg>>
    /\ LET hc == h[c]
           msg_type == data.type
           to_id == data.to
       IN CASE msg_type = "ping" ->
                 Send(c, hc, esp32_connections, frontends, state_cache, "recv", data,
                      NoBcast, c, Pong, "loop")
            [] msg_type = "state" ->
                 Bcast(c, hc, esp32_connections, frontends, cache_state(state_cache, data),
                       "recv", data, NoBcast, data, "loop")
            [] msg_type = "command" ->
                 IF hc.role # "frontend"
                 THEN Finish(c, hc, esp32_connections, frontends, state_cache, "recv",
                             data, NoBcast, "loop")
                 ELSE IF ~IsStr(to_id) \/ ~Truthy(to_id)
                 THEN Send(c, hc, esp32_connections, frontends, state_cache, "recv", data,
                           NoBcast, c, Error("command needs to"), "loop")
                 ELSE IF Target(esp32_connections, to_id) = NoConn
                 THEN Send(c, hc, esp32_connections, frontends, state_cache, "recv", data,
                           NoBcast, c, Error("not connected"), "loop")
                 ELSE Send(c, [hc EXCEPT !.to_id = to_id], esp32_connections, frontends,
                           state_cache, "recv", data, NoBcast,
                           Target(esp32_connections, to_id), data, "fwd")
            [] msg_type = "get_state" ->
                 IF hc.role # "frontend"
                 THEN Finish(c, hc, esp32_connections, frontends, state_cache, "recv",
                             data, NoBcast, "loop")
                 ELSE IF ~IsStr(to_id) \/ ~Truthy(to_id)
                 THEN Send(c, hc, esp32_connections, frontends, state_cache, "recv", data,
                           NoBcast, c, Error("get_state needs to"), "loop")
                 ELSE LET cached == get_cached_state_for_esp32(state_cache, to_id[2])
                      IN IF cached # NoMsg
                         THEN Send(c, [hc EXCEPT !.to_id = to_id], esp32_connections,
                                   frontends, state_cache, "recv", data, NoBcast,
                                   c, cached, "cached")
                         ELSE GetStateForward(c, [hc EXCEPT !.to_id = to_id], "recv", data)
            [] OTHER ->
                 Finish(c, hc, esp32_connections, frontends, state_cache, "recv", data,
                        NoBcast, "loop")

\* receive_json raises WebSocketDisconnect: the finally block runs
Disconnect(c) ==
    /\ h[c].pc = "loop"
    /\ ~open[c]
    /\ Finally(c, h[c], "cleanup")
    /\ UNCHANGED <<ka, inputs, sc, lastReg>>

\* a send inside broadcast_to_frontends has returned, lines 176-182
ResumeBcast(c) ==
    LET hc == h[c]
        dead == Dead(hc.dead, hc.cur, hc.ok)
        got == IF hc.ok THEN hc.got \cup {hc.cur} ELSE hc.got
        todo == Rest(hc.todo, hc.cur, hc.ok)
    IN IF todo # {}
       THEN \E ws \in todo :
               Upd(c, [hc EXCEPT !.todo = todo, !.dead = dead, !.got = got,
                                 !.cur = ws, !.ok = safe_send_json(ws)],
                   esp32_connections, frontends, state_cache,
                   Ev(c, "bcast", NoMsg, ws, hc.payload, safe_send_json(ws), NoBcast))
       ELSE LET fr == frontends \ dead
                bc == [snap |-> hc.snap, got |-> got, dead |-> dead]
            IN IF hc.k = "online"
               THEN AfterOnline(c, hc, esp32_connections, fr, state_cache, "bcast", NoMsg, bc)
               ELSE Finish(c, hc, esp32_connections, fr, state_cache, "bcast", NoMsg, bc, hc.k)

\* the handler continues after the await it was suspended in
Resume(c) ==
    /\ UNCHANGED <<ka, inputs, sc, lastReg>>
    /\ LET hc == h[c]
       IN CASE hc.pc = "reject" ->       \* await ws.close()
                 /\ h' = [h EXCEPT ![c].pc = "closing"]
                 /\ open' = [open EXCEPT ![c] = FALSE]
                 /\ ev' = Ev(c, hc.pc, NoMsg, NoConn, NoMsg, TRUE, NoBcast)
                 /\ UNCHANGED <<esp32_connections, frontends, state_cache, options>>
            [] hc.pc = "closing" ->      \* return
                 Finally(c, hc, hc.pc)
            [] hc.pc = "reg" ->          \* line 262
                 IF frontends = {}
                 THEN AfterOnline(c, hc, esp32_connections, frontends, state_cache,
                                  hc.pc, NoMsg, NoBcast)
                 ELSE BcastFirst(c, hc, esp32_connections, frontends, state_cache,
                                 hc.pc, NoMsg, NoBcast, Esp32Online(hc.esp32_id), "online")
            [] hc.pc = "freg" ->         \* line 280
                 Send(c, hc, esp32_connections, frontends, state_cache, hc.pc, NoMsg,
                      NoBcast, c, Esp32List(sorted(DictKeys(esp32_connections))), "loop")
            [] hc.pc = "bcast" ->
                 ResumeBcast(c)
            [] hc.pc = "fwd" ->          \* lines 339-343
                 IF ForwardFailed(hc.ok)
                 THEN Send(c, hc, Evict(esp32_connections, hc.to_id), frontends, state_cache,
                           hc.pc, NoMsg, NoBcast, c, Error("send failed"), "loop")
                 ELSE Finish(c, hc, esp32_connections, frontends, state_cache, hc.pc,
                             NoMsg, NoBcast, "loop")
            [] hc.pc = "cached" ->       \* lines 366-374
                 GetStateForward(c, hc, hc.pc, NoMsg)
            [] OTHER -> FALSE

\* keep_alive_task, lines 151-162: a cycle starts with the first probe
KaStart ==
    /\ ka.pc = "sleep"
    /\ frontends # {}
    /\ inputs < sc.budget
    /\ inputs' = inputs + 1
    /\ \E ws \in frontends :
          /\ ka' = [pc |-> "probe", snap |-> frontends,
                    down |-> {f \in frontends : ~open[f]},
                    todo |-> frontends, dead |-> {}, cur |-> ws,
                    ok |-> safe_send_json(ws)]
          /\ ev' = Ev(NoConn, "probe", NoMsg, ws, Ping, safe_send_json(ws), NoBcast)
    /\ UNCHANGED <<esp32_connections, frontends, state_cache, h, open, sc, lastReg, options>>

\* keep_alive_task: a probe has returned
KaResume ==
    /\ ka.pc = "probe"
    /\ LET dead == Dead(ka.dead, ka.cur, ka.ok)
           todo == ka.todo \ {ka.cur}
       IN IF todo # {}
          THEN \E ws \in todo :
                  /\ ka' = [ka EXCEPT !.todo = todo, !.dead = dead, !.cur = ws,
                                      !.ok = safe_send_json(ws)]
                  /\ ev' = Ev(NoConn, "probe", NoMsg, ws, Ping, safe_send_json(ws), NoBcast)
                  /\ UNCHANGED frontends
          ELSE /\ ka' = KaIdle
               /\ frontends' = frontends \ dead
               /\ ev' = Ev(NoConn, "probed", NoMsg, NoConn, NoMsg, TRUE,
                           [snap |-> ka.snap, got |-> ka.snap \ dead, dead |-> dead])
    /\ UNCHANGED <<esp32_connections, state_cache, h, open, inputs, sc, lastReg, options>>

Next ==
    \/ \E c \in Conns : Break(c)
    \/ \E c \in Conns, init_msg \in AllRegisterMsgs : RecvInit(c, init_msg)
    \/ \E c \in Conns, data \in LoopMsgs : Recv(c, data)
    \/ \E c \in Conns : Disconnect(c)
    \/ \E c \in Conns : Resume(c)
    \/ KaStart
    \/ KaResume

Init == InitOf(Race)
Spec == Init /\ [][Next]_vars

InitJoin == InitOf(Join)
SpecJoin == InitJoin /\ [][Next]_vars

InitResync == InitOf(Resync)
SpecResync == InitResync /\ [][Next]_vars

InitStream == InitOf(Stream)
SpecStream == InitStream /\ [][Next]_vars

InitView == InitOf(View)
SpecView == InitView /\ [][Next]_vars

InitCache == InitOf(Cache)
SpecCache == InitCache /\ [][Next]_vars

\* -------------------------------------------------------------- properties
Shared == <<esp32_connections, frontends, state_cache>>

\* the step just taken is a run of connection c's handler
Ran(c, act) == ev'.who = c /\ ev'.act = act

\* C1: the registry holds at most one handle per agent id, that handle is the
\* connection that registered the id last, and a command is forwarded to it
C1_NewestRegistrationWins ==
    /\ \A i, j \in DOMAIN esp32_connections :
          esp32_connections[i][1] = esp32_connections[j][1] => i = j
    /\ \A i \in DOMAIN esp32_connections :
          esp32_connections[i][2] = lastReg[esp32_connections[i][1]]
    /\ (ev.act = "recv" /\ ev.recv.type = "command" /\ ev.msg.type = "command")
          => ev.to = lastReg[ev.recv.to[2]]

\* two connections registered esp32_01, the first is still running, and a
\* command to esp32_01 has just been forwarded to the second
C1_Witness ==
    /\ h[1].pc = "loop" /\ h[1].role = "esp32" /\ h[4].role = "esp32"
    /\ ev.recv = CmdTo("esp32_01") /\ ev.msg = CmdTo("esp32_01") /\ ev.to = 4

\* C2: the cleanup of an agent handler whose id is absent from the registry
\* or registered to another handle changes no registry entry, sends nothing
\* and ends the handler
C2_StaleCleanupIsNoOp ==
    [][\A c \in Conns :
          ((Ran(c, "cleanup") \/ Ran(c, "closing")) /\ h[c].pc \in {"loop", "closing"}
              /\ h[c].role = "esp32"
              /\ ConnGet(esp32_connections, h[c].esp32_id) # c)
          => /\ esp32_connections' = esp32_connections
             /\ ev'.to = NoConn
             /\ h'[c].pc = "done"]_vars

\* connection 1 has just run its cleanup while esp32_01 is registered to 4
C2_Witness ==
    /\ ev.who = 1 /\ ev.act = "cleanup" /\ h[1].pc = "done"
    /\ DictGet(esp32_connections, "esp32_01") = 4

\* C3: no esp32_offline for an id reaches a frontend while the registry
\* holds an entry for that id
C3_NoOfflineWhileRegistered ==
    (ev.msg.type = "esp32_offline" /\ ev.to # NoConn /\ ev.ok)
        => ConnGet(esp32_connections, ev.msg.id) = NoConn

\* C6: a broadcast in which exactly one send failed delivered to every other
\* frontend of its snapshot and, completing, removes that one frontend only
C6_BroadcastIsolatesFailure ==
    [][\A c \in Conns :
          (Ran(c, "bcast") /\ h[c].pc = "bcast" /\ ev'.bcast # NoBcast
              /\ Cardinality(ev'.bcast.dead) = 1)
          => /\ ev'.bcast.snap = h[c].snap
             /\ ev'.bcast.got = h[c].snap \ ev'.bcast.dead
             /\ frontends' = frontends \ ev'.bcast.dead]_vars

\* a broadcast to two frontends has completed, one send failed, the other
\* frontend got the message and is still in the set
C6_Witness ==
    /\ ev.who \in Conns /\ Cardinality(ev.bcast.snap) = 2
    /\ Cardinality(ev.bcast.dead) = 1
    /\ \E f \in ev.bcast.got : f \in frontends /\ f \notin ev.bcast.dead

\* C8: a command from a frontend to an agent id without registry entry sends
\* one error to that frontend, changes nothing shared, and the handler is
\* back at its receive
C8_CommandToAbsentAgent ==
    [][\A c \in Conns :
          (Ran(c, "recv") /\ h[c].pc = "loop" /\ h[c].role = "frontend"
              /\ ev'.recv.type = "command"
              /\ IsStr(ev'.recv.to) /\ ev'.recv.to[2] # ""
              /\ ConnGet(esp32_connections, ev'.recv.to) = NoConn)
          => /\ ev'.to = c /\ ev'.msg.type = "error" /\ ev'.ok
             /\ Shared' = Shared
             /\ h'[c].pc = "loop"]_vars

\* a frontend has just been told that the target of its command is not connected
C8_Witness ==
    /\ ev.act = "recv" /\ ev.recv.type = "command" /\ ev.to = ev.who
    /\ ev.msg = Error("not connected")
    /\ h[ev.who].role = "frontend"

\* C9: a command to a registered agent whose send succeeds reaches that
\* agent's connection unchanged; nothing is sent back and nothing shared changes
C9_CommandForwarded ==
    [][\A c \in Conns :
          /\ (Ran(c, "recv") /\ h[c].pc = "loop" /\ h[c].role = "frontend"
                 /\ ev'.recv.type = "command"
                 /\ IsStr(ev'.recv.to) /\ ev'.recv.to[2] # ""
                 /\ ConnGet(esp32_connections, ev'.recv.to) # NoConn
                 /\ open[ConnGet(esp32_connections, ev'.recv.to)])
             => /\ ev'.to = ConnGet(esp32_connections, ev'.recv.to)
                /\ ev'.msg = ev'.recv /\ ev'.ok
                /\ Shared' = Shared
                /\ h'[c].pc = "fwd" /\ h'[c].ok
          /\ (Ran(c, "fwd") /\ h[c].pc = "fwd" /\ h[c].ok)
             => /\ ev'.to = NoConn
                /\ Shared' = Shared
                /\ h'[c].pc = "loop"]_vars

\* a forwarded command was delivered and its sender is back at its receive
\* with nothing sent to it meanwhile
C9_Witness ==
    /\ ev.act = "fwd" /\ ev.who \in Conns /\ ev.to = NoConn
    /\ h[ev.who].role = "frontend" /\ h[ev.who].pc = "loop"

\* a state message as the protocol defines it: from and device are strings
\* and id is a JSON integer (true and false are not integers)
WellFormedState(m) == IsStr(m.from) /\ IsStr(m.device) /\ m.id[1] = "int"
StateKey(m) == <<m.from[2], m.device[2], m.id[2]>>
CacheAt(cache, k) == IF k \in DOMAIN cache THEN cache[k] ELSE NoMsg

\* C4: a cache entry changes only when a well-formed state message with its
\* key is processed, it then holds that message, and no entry is ever deleted
C4_LastWriteWins ==
    [][/\ \A k \in DOMAIN state_cache : k \in DOMAIN state_cache'
       /\ \A k \in DOMAIN state_cache' :
             CacheAt(state_cache', k) # CacheAt(state_cache, k)
             => /\ ev'.act = "recv" /\ ev'.recv.type = "state"
                /\ WellFormedState(ev'.recv) /\ StateKey(ev'.recv) = k
                /\ state_cache'[k] = ev'.recv
       /\ (ev'.act = "recv" /\ ev'.recv.type = "state" /\ WellFormedState(ev'.recv))
             => CacheAt(state_cache', StateKey(ev'.recv)) = ev'.recv]_vars

\* C5: a malformed state message leaves the cache unchanged and its sender
\* open and registered
C5_MalformedStateIgnored ==
    [][\A c \in Conns :
          (Ran(c, "recv") /\ h[c].pc = "loop" /\ ev'.recv.type = "state"
              /\ ~WellFormedState(ev'.recv))
          => /\ state_cache' = state_cache
             /\ open'[c] /\ h'[c].pc \in {"loop", "bcast"}
             /\ esp32_connections' = esp32_connections
             /\ (c \in frontends => c \in frontends')]_vars

\* C7: get_state from a frontend for an id with a cached relay-0 state sends
\* that state to the frontend first; the forward or the warning follows in
\* the handler's next run
C7_GetStateFromCache ==
    [][\A c \in Conns :
          /\ (Ran(c, "recv") /\ h[c].pc = "loop" /\ h[c].role = "frontend"
                 /\ ev'.recv.type = "get_state"
                 /\ IsStr(ev'.recv.to) /\ ev'.recv.to[2] # ""
                 /\ <<ev'.recv.to[2], "relay", 0>> \in DOMAIN state_cache)
             => /\ ev'.to = c /\ ev'.ok
                /\ ev'.msg = state_cache[<<ev'.recv.to[2], "relay", 0>>]
                /\ h'[c].pc = "cached" /\ h'[c].to_id = ev'.recv.to
          /\ (Ran(c, "cached") /\ h[c].pc = "cached")
             => /\ ev'.msg.type \in {"get_state", "warning"}
                /\ h'[c].pc = "loop"]_vars

\* a frontend asked for the state of esp32_02, which is not registered, and
\* has just been sent the cached state
C7_Witness ==
    /\ ev.act = "recv" /\ ev.recv = GetStateFwd(JStr("esp32_02"))
    /\ ev.to = ev.who /\ ev.msg.type = "state" /\ ev.msg.from = JStr("esp32_02")
    /\ ConnGet(esp32_connections, JStr("esp32_02")) = NoConn
    /\ h[ev.who].pc = "cached"

\* the handler of c is about to look the target of a get_state up (line 367)
GetStateLookup(c) ==
    \/ Ran(c, "cached") /\ h[c].pc = "cached"
    \/ /\ Ran(c, "recv") /\ h[c].pc = "loop" /\ h[c].role = "frontend"
       /\ ev'.recv.type = "get_state" /\ IsStr(ev'.recv.to) /\ ev'.recv.to[2] # ""
       /\ <<ev'.recv.to[2], "relay", 0>> \notin DOMAIN state_cache
GetStateTo(c) == IF h[c].pc = "cached" THEN h[c].to_id ELSE ev'.recv.to

\* C10: a get_state is sent only to the connection registered for its target
\* at that moment; without a registry entry the frontend gets a warning
C10_GetStateForwardOnlyIfRegistered ==
    [][/\ (ev'.msg.type = "get_state" /\ ev'.to # NoConn /\ ev' # ev)
          => /\ ev'.who \in Conns /\ GetStateLookup(ev'.who)
             /\ ev'.to = ConnGet(esp32_connections, ev'.msg.to)
       /\ \A c \in Conns :
             (GetStateLookup(c) /\ ConnGet(esp32_connections, GetStateTo(c)) = NoConn)
             => /\ ev'.to = c /\ ev'.msg.type = "warning"
                /\ h'[c].pc = "loop"]_vars

\* the cached state was sent, and at the lookup the target had no registry
\* entry: the frontend has just been sent the warning
C10_Witness ==
    /\ ev.act = "cached" /\ ev.msg = Warning("not connected") /\ ev.to = ev.who
    /\ h[ev.who].role = "frontend"

\* C11: the cleanup of the connection registered for an id removes the entry
\* and sends esp32_offline to every frontend of the frontend set; a command
\* to the id while it has no entry again is answered with an error to the
\* sending frontend and reaches no agent
C11_DisconnectRemovesAndNotifies ==
    [][\A c \in Conns :
          /\ (Ran(c, "cleanup") /\ h[c].pc = "loop" /\ h[c].role = "esp32"
                 /\ ConnGet(esp32_connections, h[c].esp32_id) = c)
             => /\ ConnGet(esp32_connections', h[c].esp32_id) = NoConn
                /\ IF frontends = {}
                   THEN h'[c].pc = "done" /\ ev'.to = NoConn
                   ELSE /\ h'[c].pc = "bcast" /\ h'[c].snap = frontends
                        /\ ev'.msg = Esp32Offline(h[c].esp32_id)
                        /\ ev'.to \in frontends
          /\ (Ran(c, "bcast") /\ h[c].pc = "bcast" /\ h[c].payload.type = "esp32_offline")
             => IF ev'.bcast # NoBcast
                THEN /\ ev'.bcast.got \cup ev'.bcast.dead = h[c].snap
                     /\ h'[c].pc = "done"
                ELSE /\ ev'.msg = h[c].payload
                     /\ ev'.to \in h[c].snap /\ ev'.to # h[c].cur
          /\ (Ran(c, "recv") /\ h[c].pc = "loop" /\ h[c].role = "frontend"
                 /\ ev'.recv.type = "command"
                 /\ IsStr(ev'.recv.to) /\ ev'.recv.to[2] \in AgentIds
                 /\ lastReg[ev'.recv.to[2]] # NoConn
                 /\ ConnGet(esp32_connections, ev'.recv.to) = NoConn)
             => /\ ev'.to = c /\ ev'.msg.type = "error"
                /\ h'[c].pc = "loop"]_vars

\* connection 1 was registered as esp32_01, its cleanup has run and both
\* frontends are still there; a frontend's command to esp32_01 has just been
\* answered with the error
C11_Witness ==
    /\ lastReg["esp32_01"] = 1 /\ h[1].pc = "done"
    /\ ConnGet(esp32_connections, JStr("esp32_01")) = NoConn
    /\ ev.act = "recv" /\ ev.recv = CmdTo("esp32_01")
    /\ ev.to = ev.who /\ ev.msg = Error("not connected")

\* a first message the protocol rejects
InvalidRegister(m) ==
    \/ m.type # "register"
    \/ m.role \notin {"esp32", "frontend"}
    \/ m.role = "esp32" /\ ~(IsStr(m.id) /\ m.id[2] # "")

\* C12: a connection whose first message is rejected is sent an error and
\* closed; none of its handler's steps, the cleanup included, changes the
\* registry, the frontend set or the cache or sends to another connection
C12_BadFirstMessageRejected ==
    [][\A c \in Conns :
          /\ (Ran(c, "register") /\ h[c].pc = "new" /\ InvalidRegister(ev'.recv))
             => /\ ev'.to = c /\ ev'.msg.type = "error"
                /\ Shared' = Shared
                /\ h'[c].pc = "reject"
          /\ (Ran(c, "reject") /\ h[c].pc = "reject")
             => /\ ~open'[c] /\ ev'.to = NoConn
                /\ Shared' = Shared
                /\ h'[c].pc = "closing"
          /\ (Ran(c, "closing") /\ h[c].pc = "closing")
             => /\ ev'.to = NoConn
                /\ Shared' = Shared
                /\ h'[c].pc = "done"]_vars

\* the rejected connection 4 has just finished its cleanup while two agents
\* and a frontend are registered
C12_Witness ==
    /\ ev.who = 4 /\ ev.act = "closing" /\ h[4].pc = "done" /\ ~open[4]
    /\ Len(esp32_connections) = 2 /\ frontends = {2}

\* C13: a frontend's registration adds it to the frontend set and sends it
\* registered, then esp32_list with the registry's ids of that moment in
\* sorted order; an esp32_list goes only to the connection registering
C13_FrontendRegistration ==
    [][/\ \A c \in Conns :
             /\ (Ran(c, "register") /\ h[c].pc = "new" /\ ev'.recv.type = "register"
                    /\ ev'.recv.role = "frontend")
                => /\ c \in frontends'
                   /\ ev'.to = c /\ ev'.msg = RegisteredFrontend
                   /\ h'[c].pc = "freg"
             /\ (Ran(c, "freg") /\ h[c].pc = "freg")
                => /\ ev'.to = c /\ ev'.msg.type = "esp32_list"
                   /\ Len(ev'.msg.items) = Len(esp32_connections)
                   /\ {ev'.msg.items[i] : i \in DOMAIN ev'.msg.items}
                         = {esp32_connections[i][1] : i \in DOMAIN esp32_connections}
                   /\ \A i, j \in DOMAIN ev'.msg.items :
                         i < j => IdRank[ev'.msg.items[i]] < IdRank[ev'.msg.items[j]]
                   /\ h'[c].pc = "loop"
       /\ ev'.msg.type = "esp32_list" => (ev'.act = "freg" /\ ev'.to = ev'.who)]_vars

\* esp32_02 registered before esp32_01, and the frontend has just been sent
\* the list with esp32_01 first
C13_Witness ==
    /\ ev.act = "freg" /\ ev.to = 2
    /\ ev.msg = Esp32List(<<"esp32_01", "esp32_02">>)
    /\ DictKeys(esp32_connections) = <<"esp32_02", "esp32_01">>

\* C14: an agent's registration sends registered to the agent, then
\* esp32_online to every frontend of the frontend set, and only when that
\* broadcast is complete the cached relay-0 state of the id, if there is
\* one, to every frontend then in the set, never to the agent
C14_AgentRegistration ==
    [][\A c \in Conns :
          /\ (Ran(c, "register") /\ h[c].pc = "new" /\ ev'.recv.role = "esp32"
                 /\ ~InvalidRegister(ev'.recv))
             => /\ ev'.to = c /\ ev'.msg = RegisteredAgent(ev'.recv.id)
                /\ h'[c].pc = "reg"
          /\ (Ran(c, "reg") /\ h[c].pc = "reg")
             => IF frontends # {}
                THEN /\ ev'.msg = Esp32Online(h[c].esp32_id)
                     /\ ev'.to \in frontends
                     /\ h'[c].pc = "bcast" /\ h'[c].k = "online"
                     /\ h'[c].snap = frontends
                ELSE ev'.to = NoConn /\ h'[c].pc = "loop"
          /\ (Ran(c, "bcast") /\ h[c].pc = "bcast" /\ h[c].k = "online")
             => IF ev'.bcast = NoBcast
                THEN /\ ev'.msg = Esp32Online(h[c].esp32_id)
                     /\ ev'.to \in h[c].snap /\ ev'.to # h[c].cur
                     /\ h'[c].k = "online"
                ELSE /\ ev'.bcast.got \cup ev'.bcast.dead = h[c].snap
                     /\ ev'.bcast.got \cap ev'.bcast.dead = {}
                     /\ LET key == <<h[c].esp32_id[2], "relay", 0>>
                        IN IF key \in DOMAIN state_cache /\ frontends' # {}
                           THEN /\ h'[c].pc = "bcast" /\ h'[c].k = "loop"
                                /\ h'[c].snap = frontends'
                                /\ ev'.msg = state_cache[key]
                                /\ ev'.to \in frontends' /\ ev'.to # c
                           ELSE ev'.to = NoConn /\ h'[c].pc = "loop"
          /\ (Ran(c, "bcast") /\ h[c].pc = "bcast" /\ h[c].role = "esp32"
                 /\ h[c].payload.type = "state")
             => IF ev'.bcast = NoBcast
                THEN /\ ev'.msg = h[c].payload
                     /\ ev'.to \in h[c].snap /\ ev'.to # c
                ELSE ev'.bcast.got \cup ev'.bcast.dead = h[c].snap]_vars

\* connection 4 registered esp32_01 again: its esp32_online has reached both
\* frontends and it has just sent the cached state to a frontend
C14_Witness ==
    /\ ev.who = 4 /\ ev.act = "bcast" /\ ev.bcast.got = {2, 3}
    /\ ev.msg = State0 /\ ev.to \in {2, 3}
    /\ h[4].pc = "bcast" /\ h[4].k = "loop" /\ h[4].role = "esp32"

\* C15: a state message from a connection that is not an agent, and a command
\* or get_state from a connection that is not a frontend, changes neither
\* the registry, the frontend set nor the cache and sends nothing
C15_RoleCheckedDispatch ==
    [][\A c \in Conns :
          (Ran(c, "recv") /\ h[c].pc = "loop"
              /\ \/ ev'.recv.type = "state" /\ h[c].role # "esp32"
                 \/ ev'.recv.type \in {"command", "get_state"} /\ h[c].role # "frontend")
          => /\ Shared' = Shared
             /\ ev'.to = NoConn
             /\ h'[c].pc = "loop"]_vars

\* C16: after a failed forward of a command or of a get_state to an agent
\* the handler goes on to handle the failure, and handling it removes the
\* agent's entry, sends one error to the frontend and returns to the receive
C16_ForwardFailureEvicts ==
    [][/\ (ev'.who \in Conns /\ ev'.act \in {"recv", "cached"}
              /\ ev'.msg.type \in {"command", "get_state"}
              /\ ev'.to \notin {NoConn, ev'.who} /\ ~ev'.ok)
          => h'[ev'.who].pc = "fwd"
       /\ \A c \in Conns :
             (Ran(c, "fwd") /\ h[c].pc = "fwd" /\ ~h[c].ok)
             => /\ ConnGet(esp32_connections', h[c].to_id) = NoConn
                /\ ev'.to = c /\ ev'.msg.type = "error"
                /\ h'[c].pc = "loop"]_vars

\* C17: keep_alive_task probes frontends only, with the result the transport
\* gives; a completed cycle removes exactly the frontends of its snapshot
\* whose probe failed, among them every one that was already broken when the
\* cycle began, and no step of the task changes the registry or the cache
C17_KeepAliveCycle ==
    [][(ev'.who = NoConn /\ ev'.act \in {"probe", "probed"})
          => /\ esp32_connections' = esp32_connections
             /\ state_cache' = state_cache
             /\ ev'.act = "probe"
                => /\ ev'.msg = Ping /\ ev'.ok = open[ev'.to]
                   /\ ev'.to \in ka'.snap
                   /\ sc.cast[ev'.to] = "frontend"
                   /\ frontends' = frontends
             /\ ka.pc = "probe"
                => LET dead == IF ev'.act = "probed" THEN ev'.bcast.dead ELSE ka'.dead
                   IN \A f \in Conns :
                         f \in dead <=> (f \in ka.dead \/ (f = ka.cur /\ ~ka.ok))
             /\ ev'.act = "probed"
                => /\ ev'.to = NoConn
                   /\ ev'.bcast.snap = ka.snap
                   /\ ev'.bcast.dead \subseteq ka.snap
                   /\ ev'.bcast.got = ka.snap \ ev'.bcast.dead
                   /\ frontends' = frontends \ ev'.bcast.dead
                   /\ \A f \in ka.down : f \notin frontends']_vars

\* frontend 2 broke and its handler has not noticed yet; a cycle over both
\* frontends has just completed and only frontend 3 is left in the set
C17_Witness ==
    /\ ev.who = NoConn /\ ev.act = "probed"
    /\ ev.bcast.snap = {2, 3} /\ ev.bcast.dead = {2} /\ ev.bcast.got = {3}
    /\ ~open[2] /\ h[2].pc = "loop"
    /\ frontends = {3}

\* C18: a ping received in the loop, from an agent or from a frontend, is
\* answered with one pong to the connection it came from; the registry, the
\* frontend set and the cache stay as they are
C18_PingAnsweredWithPong ==
    [][/\ \A c \in Conns :
             (Ran(c, "recv") /\ h[c].pc = "loop" /\ ev'.recv.type = "ping")
             => /\ ev'.to = c /\ ev'.msg.type = "pong"
                /\ ev'.msg = [ev'.recv EXCEPT !.type = "pong"]
                /\ Shared' = Shared
                /\ h'[c].pc = "loop"
       /\ ev'.msg.type = "pong" => (ev'.act = "recv" /\ ev'.recv.type = "ping")]_vars

\* the agent connection 1 has just been sent the pong for its ping
C18_Witness ==
    /\ ev.who = 1 /\ ev.act = "recv" /\ ev.recv.type = "ping"
    /\ ev.to = 1 /\ ev.msg.type = "pong" /\ ev.ok
    /\ h[1].role = "esp32" /\ DictGet(esp32_connections, "esp32_01") = 1

\* C19: when the forward of a command has failed and the id is by now
\* registered to another connection than the one the send went to, handling
\* the failure leaves that newer entry in the registry
C19_EvictionSparesNewerEntry ==
    [][\A c \in Conns :
          (Ran(c, "fwd") /\ h[c].pc = "fwd" /\ ~h[c].ok
              /\ ConnGet(esp32_connections, h[c].to_id) \notin {NoConn, h[c].cur})
          => ConnGet(esp32_connections', h[c].to_id)
                = ConnGet(esp32_connections, h[c].to_id)]_vars

\* C20: a handler receives a message only when every send of the message
\* before is done; a state message is written to the cache in the step that
\* receives it, before its first send, and its broadcast carries that
\* message to the end while the handler receives nothing
C20_InOrderProcessing ==
    [][\A c \in Conns :
          /\ Ran(c, "recv")
             => /\ h[c].pc = "loop" /\ h[c].todo = {}
                /\ ev'.recv.type = "state"
                   => /\ (IsStr(ev'.recv.from) /\ IsStr(ev'.recv.device) /\ IsInt(ev'.recv.id))
                         => state_cache'[PyKey(ev'.recv.from, ev'.recv.device, ev'.recv.id)]
                               = ev'.recv
                      /\ IF frontends = {}
                         THEN ev'.to = NoConn /\ h'[c].pc = "loop"
                         ELSE /\ h'[c].pc = "bcast" /\ h'[c].payload = ev'.recv
                              /\ h'[c].snap = frontends
                              /\ ev'.msg = ev'.recv /\ ev'.to \in frontends
          /\ (Ran(c, "bcast") /\ h[c].pc = "bcast" /\ h[c].payload.type = "state")
             => IF ev'.bcast = NoBcast
                THEN /\ ev'.msg = h[c].payload /\ h'[c].payload = h[c].payload
                     /\ ev'.to \in h[c].todo /\ ev'.to # h[c].cur
                     /\ h'[c].pc = "bcast"
                ELSE /\ ev'.bcast.got \cup ev'.bcast.dead = h[c].snap
                     /\ h'[c].pc = "loop"
          /\ (h[c].pc = "bcast" /\ ev'.who # c) => h'[c] = h[c]]_vars

\* two state messages have been received, the cache holds two entries of
\* esp32_01, and the broadcast of the second by connection 1 has just
\* reached both frontends
C20_Witness ==
    /\ inputs = 2 /\ ev.who = 1 /\ ev.act = "bcast" /\ ev.bcast.got = {2, 3}
    /\ h[1].pc = "loop" /\ h[1].role = "esp32"
    /\ {<<"esp32_01", "relay", 0>>, <<"esp32_01", "relay", 1>>} \subseteq DOMAIN state_cache

\* C21: a handle stored in the registry under an id is the connection of a
\* handler that registered as an agent with that id and whose cleanup has
\* not run; no entry is left for a handler that has returned
C21_RegistryHoldsLiveAgents ==
    \A i \in DOMAIN esp32_connections :
        LET id == esp32_connections[i][1]
            ws == esp32_connections[i][2]
        IN /\ ws \in Conns
           /\ h[ws].pc \notin {"new", "reject", "closing", "done"}
           /\ ~(h[ws].pc = "bcast" /\ h[ws].k = "done")
           /\ h[ws].role = "esp32" /\ h[ws].esp32_id = JStr(id)

\* the handler of connection 1, once registered as esp32_01, has returned
\* and the registry holds connection 4, whose handler is running
C21_Witness ==
    /\ lastReg["esp32_01"] = 4 /\ h[1].pc = "done"
    /\ esp32_connections = <<(<<"esp32_01", 4>>)>>
    /\ h[4].pc = "loop" /\ ev.who = 1 /\ ev.act \in {"cleanup", "bcast"}

\* C22: a handle of the frontend set is the connection of a handler that
\* registered as a frontend and whose cleanup has not run, it is not stored
\* in the registry, and a handle enters the set only in the step that
\* registers it, so that one removed never comes back
C22_FrontendSetHoldsLiveFrontends ==
    [][/\ \A f \in frontends' :
             /\ h'[f].role = "frontend"
             /\ h'[f].pc \notin {"new", "reject", "closing", "done"}
             /\ \A i \in DOMAIN esp32_connections' : esp32_connections'[i][2] # f
       /\ \A f \in frontends' \ frontends :
             h[f].pc = "new" /\ Ran(f, "register")
       /\ \A f \in Conns : h[f].pc # "new" => h'[f].pc # "new"]_vars

\* the handler of frontend 2 has just run its cleanup and returned;
\* frontend 3 is the only one left in the set
C22_Witness ==
    /\ h[2].pc = "done" /\ ev.who = 2 /\ ev.act = "cleanup"
    /\ frontends = {3} /\ h[3].pc = "loop" /\ h[3].role = "frontend"

\* no handler is inside an operation or about to see its connection broken,
\* and keep_alive_task sleeps
Quiescent ==
    /\ ka.pc = "sleep"
    /\ \A c \in Conns : /\ h[c].pc \in {"new", "loop", "done"}
                        /\ h[c].pc = "loop" => open[c]

\* C23: when the system is quiescent, the ids listed by the client of every
\* frontend of the frontend set are the ids of the registry
C23_FrontendViewMatchesRegistry ==
    Quiescent =>
       \A f \in frontends :
          {options[f][i] : i \in DOMAIN options[f]}
             = {esp32_connections[i][1] : i \in DOMAIN esp32_connections}

\* C24: the step that removes an id from the registry, the cleanup of its
\* connection and the eviction after a failed forward alike, starts the
\* broadcast of esp32_offline for that id to the frontends of the set
C24_RemovalBroadcastsOffline ==
    [][\A id \in AgentIds :
          (DictHas(esp32_connections, id) /\ ~DictHas(esp32_connections', id))
          => \/ frontends' = {}
             \/ /\ ev'.msg = Esp32Offline(JStr(id)) /\ ev'.to \in frontends'
                /\ h'[ev'.who].pc = "bcast" /\ h'[ev'.who].snap = frontends']_vars

\* C25: a state message received from an agent connection changes only cache
\* entries of the id that connection registered, and only while the registry
\* holds that connection for the id
C25_CacheWrittenByOwnerOnly ==
    [][\A c \in Conns :
          (Ran(c, "recv") /\ h[c].pc = "loop" /\ h[c].role = "esp32"
              /\ ev'.recv.type = "state")
          => \A k \in DOMAIN state_cache' :
                CacheAt(state_cache', k) # CacheAt(state_cache, k)
                => /\ k[1] = h[c].esp32_id[2]
                   /\ ConnGet(esp32_connections, h[c].esp32_id) = c]_vars
====
